---- MODULE Spec2Model ----
(***************************************************************************)
(* Model of the task API facade of src/src/services/api.ts: the response   *)
(* normalizer and error mapper (handleResponse) and the facade operations  *)
(* register, login, getTodos, createTodo, updateTodo and deleteTodo.       *)
(*                                                                         *)
(* Texts (bodies, messages, titles) are TLA+ strings.  JavaScript values   *)
(* are tagged records, so that values of different types can be compared.  *)
(***************************************************************************)
EXTENDS Integers, Sequences, FiniteSets, TLC

VARIABLES pc, call, request, nreq, response, parsed, outcome

\* the state of one facade call
vars == <<pc, call, request, nreq, response, parsed, outcome>>

\* the state of the screens (app/home/todo-list), of the calls they have
\* made and of the server behind them
VARIABLES authToken, tasks, calls, server, inOrder, isSaving, isLoading

svars == <<authToken, tasks, calls, server, inOrder, isSaving, isLoading>>

allvars == <<vars, svars>>

(***************************************************************************)
(* Bounds of the model.                                                    *)
(***************************************************************************)
\* longest task array a response carries
MaxItems == 2

(***************************************************************************)
(* JavaScript / JSON values.                                               *)
(***************************************************************************)
JUndef == [t |-> "undefined"]
JNull == [t |-> "null"]
JBool(b) == [t |-> "bool", b |-> b]
JNum(n) == [t |-> "num", n |-> n]
JStr(s) == [t |-> "str", s |-> s]
\* an array: the sequence of its items
JArr(items) == [t |-> "arr", a |-> items]
\* an object: the sequence of its <<key, value>> pairs, in insertion order
JObj(pairs) == [t |-> "obj", o |-> pairs]

\* obj.key = value on an object literal under construction
SetProp(obj, key, value) == JObj(Append(obj.o, <<key, value>>))

\* the keys an object holds
Keys(obj) == {obj.o[i][1] : i \in 1..Len(obj.o)}

HasKey(v, key) == v.t = "obj" /\ key \in Keys(v)

\* v.key for a value that is neither null nor undefined: the property of an
\* object, undefined on anything else (primitives and arrays hold none of the
\* keys read here)
Get(v, key) ==
    IF HasKey(v, key)
    THEN v.o[CHOOSE i \in 1..Len(v.o) : v.o[i][1] = key][2]
    ELSE JUndef

\* v.key throws a TypeError when v is null or undefined
GetThrows(v) == v.t \in {"null", "undefined"}

\* the truthiness of a value: if (v), !v, v || w, v && w
Truthy(v) ==
    CASE v.t = "undefined" -> FALSE
      [] v.t = "null" -> FALSE
      [] v.t = "bool" -> v.b
      [] v.t = "num" -> v.n # 0
      [] v.t = "str" -> v.s # ""
      [] OTHER -> TRUE

\* v || w
Or(v, w) == IF Truthy(v) THEN v ELSE w

\* typeof v === 'object' (null included)
IsObjectType(v) == v.t \in {"obj", "arr", "null"}

\* Array.isArray(v)
IsArray(v) == v.t = "arr"

(***************************************************************************)
(* Texts.                                                                  *)
(***************************************************************************)
\* the characters String.prototype.trim strips
IsSpace(c) == c \in {" ", "\t", "\n", "\r"}

RECURSIVE TrimStart(_)
TrimStart(s) ==
    IF s # "" /\ IsSpace(Head(s)) THEN TrimStart(Tail(s)) ELSE s

RECURSIVE TrimEnd(_)
TrimEnd(s) ==
    IF s # "" /\ IsSpace(SubSeq(s, Len(s), Len(s)))
    THEN TrimEnd(SubSeq(s, 1, Len(s) - 1))
    ELSE s

\* s.trim()
Trim(s) == TrimEnd(TrimStart(s))

\* s.includes(m)
Includes(s, m) ==
    \E i \in 1..(Len(s) - Len(m) + 1) : SubSeq(s, i, i + Len(m) - 1) = m

\* the text of a string inside a JSON document: quotes and backslashes escaped
RECURSIVE Escape(_)
Escape(s) ==
    IF s = "" THEN ""
    ELSE LET c == Head(s)
         IN (IF c \in {"\"", "\\"} THEN "\\" \o c ELSE c) \o Escape(Tail(s))

\* JSON.stringify(v): no white space, keys in insertion order, the properties
\* of an object whose value is undefined left out, undefined in an array
\* written as null
RECURSIVE JSONStringify(_)
RECURSIVE StringifyItems(_)
RECURSIVE StringifyPairs(_)
JSONStringify(v) ==
    CASE v.t = "null" -> "null"
      [] v.t = "bool" -> IF v.b THEN "true" ELSE "false"
      [] v.t = "num" -> ToString(v.n)
      [] v.t = "str" -> "\"" \o Escape(v.s) \o "\""
      [] v.t = "arr" -> "[" \o StringifyItems(v.a) \o "]"
      [] v.t = "obj" ->
            "{" \o StringifyPairs(SelectSeq(v.o, LAMBDA p : p[2] # JUndef)) \o "}"

StringifyItems(items) ==
    IF items = <<>> THEN ""
    ELSE (IF Head(items) = JUndef THEN "null" ELSE JSONStringify(Head(items)))
         \o (IF Len(items) > 1 THEN "," ELSE "")
         \o StringifyItems(Tail(items))

StringifyPairs(pairs) ==
    IF pairs = <<>> THEN ""
    ELSE "\"" \o Escape(Head(pairs)[1]) \o "\":" \o JSONStringify(Head(pairs)[2])
         \o (IF Len(pairs) > 1 THEN "," ELSE "")
         \o StringifyPairs(Tail(pairs))

\* String(v) of a truthy value that is not an object
ToStr(v) ==
    CASE v.t = "str" -> v.s
      [] v.t = "num" -> ToString(v.n)
      [] v.t = "bool" -> IF v.b THEN "true" ELSE "false"
      [] v.t = "null" -> "null"
      [] OTHER -> "undefined"

(***************************************************************************)
(* The documents and texts a server answers with.                          *)
(***************************************************************************)
\* the pairs of an object literal whose value is given
Compact(pairs) == SelectSeq(pairs, LAMBDA p : p[2] # JUndef)

Task(id, title, completed) ==
    JObj(<< <<"id", JStr(id)>>, <<"title", JStr(title)>>,
            <<"completed", JBool(completed)>> >>)

Tasks == {Task("1", "a", FALSE), Task("2", "b", TRUE)}

TaskLists == UNION {[1..n -> Tasks] : n \in 0..MaxItems}

\* the values of a message field of an error document (undefined: no field)
MessageVals ==
    {JUndef, JNull, JStr(""), JStr("Unauthorized"), JNum(0), JNum(401),
     JBool(TRUE), JBool(FALSE), JObj(<< <<"code", JNum(1)>> >>),
     JArr(<<JStr("bad")>>)}

\* the values of an error field of an error document (undefined: no field)
ErrorVals ==
    {JUndef, JStr(""), JStr("Forbidden"), JObj(<< <<"code", JNum(1)>> >>)}

ErrorDocs ==
    {JObj(Compact(<< <<"message", m>>, <<"error", e>> >>)) :
        m \in MessageVals, e \in ErrorVals}

\* what the data field of an envelope holds
DataVals ==
    {JArr(l) : l \in TaskLists}
        \cup {JNull, JStr("x"), Task("1", "a", FALSE),
              JObj(<< <<"token", JStr("tok")>> >>)}

\* { data: ... }
DataDocs == {JObj(<< <<"data", d>> >>) : d \in DataVals}

\* { success: true, data: ... }
EnvelopeDocs == {JObj(<< <<"success", JBool(TRUE)>>, <<"data", d>> >>) : d \in DataVals}

BareDocs ==
    {JArr(l) : l \in TaskLists}
        \cup {Task("1", "a", FALSE), JObj(<< <<"token", JStr("tok")>> >>),
              JNull, JNum(5), JStr("ok"), JBool(TRUE)}

Documents == ErrorDocs \cup DataDocs \cup EnvelopeDocs \cup BareDocs

\* bodies that are no JSON text
RawTexts ==
    {"", "Not Found", "<!DOCTYPE html><html><body>Bad Gateway</body></html>",
     "<html><body>Bad Gateway</body></html>"}

\* the text of each document
DocText == [d \in Documents |-> JSONStringify(d)]

Bodies == {DocText[d] : d \in Documents} \cup RawTexts

\* JSON.parse(text): the document whose text it is; ok is FALSE when it throws
\* a SyntaxError
JSONParse(text) ==
    IF \E d \in Documents : DocText[d] = text
    THEN [ok |-> TRUE, value |-> CHOOSE d \in Documents : DocText[d] = text]
    ELSE [ok |-> FALSE, value |-> JUndef]

StatusText(status) ==
    CASE status = 200 -> "OK"
      [] status = 204 -> "No Content"
      [] status = 401 -> "Unauthorized"
      [] status = 500 -> "Internal Server Error"

Response(status, body) ==
    [kind |-> "http", status |-> status, statusText |-> StatusText(status),
     body |-> body]

\* a 204 carries no body
Responses ==
    {Response(s, b) : s \in {200, 401, 500}, b \in Bodies} \cup {Response(204, "")}

\* res.ok
Ok(res) == res.status >= 200 /\ res.status <= 299

\* the messages of the errors fetch rejects with
TransportMessages == {"Network request failed", ""}

NoResponse == [kind |-> "none"]

(***************************************************************************)
(* handleResponse                                                          *)
(***************************************************************************)
Throw(message) == [kind |-> "throw", message |-> message]
Return(value) == [kind |-> "return", value |-> value]

\* the message of the SyntaxError of JSON.parse and res.json()
SyntaxErrorMessage == "JSON Parse error: Unexpected token"

\* the message of the TypeError of reading a property of null
TypeErrorMessage(key) == "Cannot read property '" \o key \o "' of null"

\* ErrorText reading jsonError.error || jsonError.message
ErrorTextErrorFirst(res) ==
    LET errorText == res.body
        p == JSONParse(errorText)
        jsonError == p.value
    IN  IF ~p.ok \/ GetThrows(jsonError)
        THEN IF Includes(errorText, "<!DOCTYPE html>")
             THEN "Error del servidor (" \o ToString(res.status) \o ")"
             ELSE errorText
        ELSE LET rawError == Or(Get(jsonError, "error"), Get(jsonError, "message"))
             IN  IF Truthy(rawError)
                 THEN IF IsObjectType(rawError)
                      THEN JSONStringify(rawError)
                      ELSE ToStr(rawError)
                 ELSE errorText

\* errorText when the throw statement is reached
ErrorText(res) ==
    LET errorText == res.body
        p == JSONParse(errorText)
        jsonError == p.value
    IN  IF ~p.ok \/ GetThrows(jsonError)
        THEN \* catch
             IF Includes(errorText, "<!DOCTYPE html>")
             THEN "Error del servidor (" \o ToString(res.status) \o ")"
             ELSE errorText
        ELSE LET rawError == Or(Get(jsonError, "message"), Get(jsonError, "error"))
             IN  IF Truthy(rawError)
                 THEN IF IsObjectType(rawError)
                      THEN JSONStringify(rawError)
                      ELSE ToStr(rawError)
                 ELSE errorText

\* ErrorMessage without the fallback: new Error(errorText)
ErrorMessageNoFallback(res) == ErrorText(res)

\* new Error(errorText || `Error ${res.status}: ${res.statusText}`)
ErrorMessage(res) ==
    IF ErrorText(res) # ""
    THEN ErrorText(res)
    ELSE "Error " \o ToString(res.status) \o ": " \o res.statusText

\* res.json()
ResJson(res) ==
    LET p == JSONParse(res.body)
    IN  IF p.ok THEN Return(p.value) ELSE Throw(SyntaxErrorMessage)

handleResponse(res) ==
    IF ~Ok(res) THEN Throw(ErrorMessage(res))
    ELSE IF res.status = 204 THEN Return(JNull)
    ELSE ResJson(res)

\* whether handleResponse parses the body as JSON (JSON.parse or res.json())
ParsesBody(res) == ~Ok(res) \/ res.status # 204

(***************************************************************************)
(* The inputs of the facade operations.                                    *)
(***************************************************************************)
Tokens == {"", "tok"}

Ids == {"1"}

\* a location as the screens hand it over
Location == JObj(<< <<"latitude", JNum(10)>>, <<"longitude", JNum(20)>>,
                    <<"timestamp", JNum(99)>> >>)

\* NewTaskData: title, photoUri and location, each possibly missing
NewTaskDatas ==
    {JObj(<< <<"title", t>>, <<"photoUri", p>>, <<"location", l>> >>) :
        t \in {JUndef, JStr(""), JStr("  "), JStr(" \t"), JStr("x"),
               JStr("  Buy milk  ")},
        p \in {JUndef, JNull, JStr(""), JStr("https://picsum.photos/200")},
        l \in {JUndef, JNull, Location}}

\* the changes of an update: the legacy boolean, or an object of title,
\* completed, image and location, each possibly missing
Changes ==
    {JBool(TRUE), JBool(FALSE)}
        \cup {JObj(<< <<"title", t>>, <<"completed", c>>, <<"image", i>>,
                      <<"location", l>> >>) :
                t \in {JUndef, JStr("x")},
                c \in {JUndef, JBool(TRUE), JBool(FALSE)},
                i \in {JUndef, JNull, JStr("https://picsum.photos/200")},
                l \in {JUndef, JNull, Location}}

Credentials ==
    {JObj(<< <<"email", JStr("a@b.c")>>, <<"password", JStr("pw")>> >>)}

(***************************************************************************)
(* Requests.                                                               *)
(***************************************************************************)
NoRequest == [method |-> "none"]

\* fetch(`${API_URL}${path}`, { method, headers, body: JSON.stringify(payload) })
Request(method, path, authorization, payload) ==
    [method |-> method, path |-> path, authorization |-> authorization,
     payload |-> payload, body |-> JSONStringify(payload)]

\* fetch without a body
RequestNoBody(method, path, authorization) ==
    [method |-> method, path |-> path, authorization |-> authorization,
     payload |-> JUndef, body |-> ""]

Bearer(token) == "Bearer " \o token

\* { latitude: location.latitude, longitude: location.longitude }
LatLong(location) ==
    JObj(<< <<"latitude", Get(location, "latitude")>>,
            <<"longitude", Get(location, "longitude")>> >>)

\* TitleMissing without the trim: !data.title
TitleMissingNoTrim(data) ==
    LET title == Get(data, "title")
    IN  IF title.t \in {"undefined", "null"} THEN TRUE ELSE title.s = ""

\* createTodo: !data.title?.trim()
TitleMissing(data) ==
    LET title == Get(data, "title")
    IN  IF title.t \in {"undefined", "null"} THEN TRUE ELSE Trim(title.s) = ""

\* CreatePayload handing the location over whole: payload.location = data.location
CreatePayloadWholeLocation(data) ==
    LET p1 == JObj(<< <<"title", JStr(Trim(Get(data, "title").s))>> >>)
        p2 == IF Truthy(Get(data, "location"))
              THEN SetProp(p1, "location", Get(data, "location"))
              ELSE p1
        p3 == IF Truthy(Get(data, "photoUri")) /\ Get(data, "photoUri").t = "str"
              THEN SetProp(p2, "image", Get(data, "photoUri"))
              ELSE p2
    IN  p3

\* createTodo: the payload of the POST
CreatePayload(data) ==
    LET p1 == JObj(<< <<"title", JStr(Trim(Get(data, "title").s))>> >>)
        p2 == IF Truthy(Get(data, "location"))
              THEN SetProp(p1, "location", LatLong(Get(data, "location")))
              ELSE p1
        p3 == IF Truthy(Get(data, "photoUri")) /\ Get(data, "photoUri").t = "str"
              THEN SetProp(p2, "image", Get(data, "photoUri"))
              ELSE p2
    IN  p3

\* UpdatePayload without the legacy form: a boolean holds none of the fields
UpdatePayloadNoLegacy(data) ==
    LET p0 == JObj(<<>>)
        p1 == IF Get(data, "title") # JUndef
              THEN SetProp(p0, "title", Get(data, "title")) ELSE p0
        p2 == IF Get(data, "completed") # JUndef
              THEN SetProp(p1, "completed", Get(data, "completed")) ELSE p1
        p3 == IF Get(data, "image") # JUndef
              THEN SetProp(p2, "image", Get(data, "image")) ELSE p2
        p4 == IF Truthy(Get(data, "location"))
              THEN SetProp(p3, "location", LatLong(Get(data, "location")))
              ELSE p3
    IN  p4

\* UpdatePayload testing the fields for truth: if (data.completed) ...
UpdatePayloadTruthy(data) ==
    IF data.t = "bool"
    THEN JObj(<< <<"completed", data>> >>)
    ELSE LET p0 == JObj(<<>>)
             p1 == IF Truthy(Get(data, "title"))
                   THEN SetProp(p0, "title", Get(data, "title")) ELSE p0
             p2 == IF Truthy(Get(data, "completed"))
                   THEN SetProp(p1, "completed", Get(data, "completed")) ELSE p1
             p3 == IF Truthy(Get(data, "image"))
                   THEN SetProp(p2, "image", Get(data, "image")) ELSE p2
             p4 == IF Truthy(Get(data, "location"))
                   THEN SetProp(p3, "location", LatLong(Get(data, "location")))
                   ELSE p3
         IN  p4

\* updateTodo: the payload of the PATCH
UpdatePayload(data) ==
    IF data.t = "bool"
    THEN JObj(<< <<"completed", data>> >>)
    ELSE LET p0 == JObj(<<>>)
             p1 == IF Get(data, "title") # JUndef
                   THEN SetProp(p0, "title", Get(data, "title")) ELSE p0
             p2 == IF Get(data, "completed") # JUndef
                   THEN SetProp(p1, "completed", Get(data, "completed")) ELSE p1
             p3 == IF Get(data, "image") # JUndef
                   THEN SetProp(p2, "image", Get(data, "image")) ELSE p2
             p4 == IF Truthy(Get(data, "location"))
                   THEN SetProp(p3, "location", LatLong(Get(data, "location")))
                   ELSE p3
         IN  p4

(***************************************************************************)
(* What each operation does with the result of handleResponse, and with an *)
(* error caught.                                                           *)
(***************************************************************************)
Pending == [kind |-> "pending"]
Resolved(value) == [kind |-> "resolved", value |-> value]
Rejected(message) == [kind |-> "rejected", message |-> message]

\* throw new Error(error.message || fallback)
Rethrow(message, fallback) ==
    Rejected(IF message # "" THEN message ELSE fallback)

\* register: json.data when it is truthy, else json
RegisterResult(json) ==
    IF GetThrows(json) THEN Throw(TypeErrorMessage("data"))
    ELSE IF Truthy(Get(json, "data")) THEN Return(Get(json, "data"))
    ELSE Return(json)

\* login: json.data when it holds a token, else json
LoginResult(json) ==
    IF GetThrows(json) THEN Throw(TypeErrorMessage("data"))
    ELSE IF Truthy(Get(json, "data")) /\ Truthy(Get(Get(json, "data"), "token"))
    THEN Return(Get(json, "data"))
    ELSE Return(json)

\* GetTodosResult without the fallback to a bare array
GetTodosResultEnvelopeOnly(json) ==
    IF GetThrows(json) THEN Throw(TypeErrorMessage("data"))
    ELSE IF Truthy(Get(json, "data")) /\ IsArray(Get(json, "data"))
    THEN Return(Get(json, "data"))
    ELSE Return(JArr(<<>>))

\* getTodos: json.data when it is an array, else json when it is one, else []
GetTodosResult(json) ==
    IF GetThrows(json) THEN Throw(TypeErrorMessage("data"))
    ELSE IF Truthy(Get(json, "data")) /\ IsArray(Get(json, "data"))
    THEN Return(Get(json, "data"))
    ELSE IF IsArray(json) THEN Return(json)
    ELSE Return(JArr(<<>>))

\* the body of the try block once fetch has resolved with res
TryResult(op, res) ==
    LET h == handleResponse(res)
    IN  IF h.kind = "throw" THEN h
        ELSE CASE op = "register" -> RegisterResult(h.value)
               [] op = "login" -> LoginResult(h.value)
               [] op = "getTodos" -> GetTodosResult(h.value)
               [] op = "deleteTodo" -> Return(JUndef)
               [] OTHER -> h

\* the catch block of each operation
Catch(op, message) ==
    CASE op = "register" -> Rethrow(message, "Error al registrarse")
      [] op = "login" -> Rethrow(message, "Error al iniciar sesión")
      [] op = "getTodos" -> Rejected(message)
      [] op = "createTodo" -> Rethrow(message, "Error al crear tarea")
      [] op = "updateTodo" -> Rethrow(message, "Error al actualizar tarea")
      [] op = "deleteTodo" -> Rethrow(message, "Error al eliminar tarea")

\* how the operation ends once fetch has resolved with res
Settle(op, res) ==
    LET r == TryResult(op, res)
    IN  IF r.kind = "throw" THEN Catch(op, r.message) ELSE Resolved(r.value)

(***************************************************************************)
(* One facade call at a time: pc is idle before the call, fetching while   *)
(* its request is in flight and done once its promise has settled.  nreq   *)
(* counts the requests the call has issued, parsed tells whether it has    *)
(* parsed a response body as JSON.                                         *)
(***************************************************************************)
NoCall == [op |-> "none"]

Call(op, token, id, data) == [op |-> op, token |-> token, id |-> id, data |-> data]

\* no screen is mounted: the facade is called on its own
NoScreen ==
    /\ authToken = JNull
    /\ tasks = <<>>
    /\ calls = <<>>
    /\ server = <<>>
    /\ inOrder = TRUE
    /\ isSaving = FALSE
    /\ isLoading = FALSE

Init ==
    /\ pc = "idle"
    /\ call = NoCall
    /\ request = NoRequest
    /\ nreq = 0
    /\ response = NoResponse
    /\ parsed = FALSE
    /\ outcome = Pending
    /\ NoScreen

\* await fetch(...): the request leaves
Fetch(c, req) ==
    /\ call' = c
    /\ request' = req
    /\ nreq' = nreq + 1
    /\ pc' = "fetching"
    /\ UNCHANGED <<response, parsed, outcome>>
    /\ UNCHANGED svars

Register ==
    /\ pc = "idle"
    /\ \E cred \in Credentials :
        Fetch(Call("register", "", "", cred),
              Request("POST", "/auth/register", "", cred))

Login ==
    /\ pc = "idle"
    /\ \E cred \in Credentials :
        Fetch(Call("login", "", "", cred),
              Request("POST", "/auth/login", "", cred))

GetTodos ==
    /\ pc = "idle"
    /\ \E token \in Tokens :
        Fetch(Call("getTodos", token, "", JUndef),
              RequestNoBody("GET", "/todos", Bearer(token)))

\* createTodo with a title that passes the validation
CreateTodo ==
    /\ pc = "idle"
    /\ \E token \in Tokens, data \in NewTaskDatas :
        /\ ~TitleMissing(data)
        /\ Fetch(Call("createTodo", token, "", data),
                 Request("POST", "/todos", Bearer(token), CreatePayload(data)))

\* createTodo with a title that fails it: the throw ahead of the try block
CreateTodoInvalid ==
    /\ pc = "idle"
    /\ \E token \in Tokens, data \in NewTaskDatas :
        /\ TitleMissing(data)
        /\ call' = Call("createTodo", token, "", data)
        /\ outcome' = Rejected("El título es obligatorio")
        /\ pc' = "done"
        /\ UNCHANGED <<request, nreq, response, parsed>>
        /\ UNCHANGED svars

UpdateTodo ==
    /\ pc = "idle"
    /\ \E id \in Ids, token \in Tokens, data \in Changes :
        Fetch(Call("updateTodo", token, id, data),
              Request("PATCH", "/todos/" \o id, Bearer(token), UpdatePayload(data)))

DeleteTodo ==
    /\ pc = "idle"
    /\ \E id \in Ids, token \in Tokens :
        Fetch(Call("deleteTodo", token, id, JUndef),
              RequestNoBody("DELETE", "/todos/" \o id, Bearer(token)))

\* fetch resolves with a response: handleResponse and the rest of the operation
FetchResolves ==
    /\ pc = "fetching"
    /\ \E res \in Responses :
        /\ response' = res
        /\ parsed' = ParsesBody(res)
        /\ outcome' = Settle(call.op, res)
        /\ pc' = "done"
        /\ UNCHANGED <<call, request, nreq>>
        /\ UNCHANGED svars

\* FetchRejects with a catch block that issues the request again
FetchRejectsRetry ==
    /\ pc = "fetching"
    /\ Fetch(call, request)

\* fetch rejects (transport failure): the catch block of the operation
FetchRejects ==
    /\ pc = "fetching"
    /\ \E message \in TransportMessages :
        /\ response' = [kind |-> "transport", message |-> message]
        /\ outcome' = Catch(call.op, message)
        /\ pc' = "done"
        /\ UNCHANGED <<call, request, nreq, parsed>>
        /\ UNCHANGED svars

\* the caller has the result; the next call starts from scratch
Finish ==
    /\ pc = "done"
    /\ pc' = "idle"
    /\ call' = NoCall
    /\ request' = NoRequest
    /\ nreq' = 0
    /\ response' = NoResponse
    /\ parsed' = FALSE
    /\ outcome' = Pending
    /\ UNCHANGED svars

Next ==
    \/ Register
    \/ Login
    \/ GetTodos
    \/ CreateTodo
    \/ CreateTodoInvalid
    \/ UpdateTodo
    \/ DeleteTodo
    \/ FetchResolves
    \/ FetchRejects
    \/ Finish

Spec == Init /\ [][Next]_allvars

(***************************************************************************)
(* Properties.                                                             *)
(***************************************************************************)
FacadeOps == {"getTodos", "createTodo", "updateTodo", "deleteTodo"}

\* the call has ended on a response with a status outside 200..299
EndedOnHttpError ==
    /\ pc = "done"
    /\ response.kind = "http"
    /\ ~(response.status \in 200..299)

\* the text of a field of an error document: its string value, or its JSON
\* text when it is an object
FieldText(v) ==
    CASE v.t = "str" -> v.s
      [] v.t = "num" -> ToString(v.n)
      [] v.t = "bool" -> IF v.b THEN "true" ELSE "false"
      [] OTHER -> JSONStringify(v)

\* C1 as stated: on a non-2xx response whose body parses as JSON and holds a
\* message or an error field, the operation throws an error whose text is that
\* field's string value, or its JSON text when the field is an object.
C1_FieldAlwaysUsed ==
    EndedOnHttpError /\ JSONParse(response.body).ok =>
        LET doc == JSONParse(response.body).value
        IN  HasKey(doc, "message") \/ HasKey(doc, "error") =>
                /\ outcome.kind = "rejected"
                /\ \E key \in {"message", "error"} :
                    /\ HasKey(doc, key)
                    /\ outcome.message = FieldText(Get(doc, key))

\* C1 as amended: the field used is message when its value is truthy, else
\* error when its value is truthy; the error thrown then has as its text that
\* value's string form, or its JSON text when it is an object or an array.
C1_TruthyFieldUsed ==
    EndedOnHttpError /\ JSONParse(response.body).ok =>
        LET doc == JSONParse(response.body).value
            m == Get(doc, "message")
            e == Get(doc, "error")
        IN  /\ HasKey(doc, "message") /\ Truthy(m) =>
                outcome = Rejected(FieldText(m))
            /\ ~Truthy(m) /\ HasKey(doc, "error") /\ Truthy(e) =>
                outcome = Rejected(FieldText(e))

\* an update answered 401 with { message: { code: 1 }, error: "Forbidden" }
\* has thrown the JSON text of the message
C1_Witness ==
    /\ EndedOnHttpError
    /\ call.op = "updateTodo"
    /\ response.body = "{\"message\":{\"code\":1},\"error\":\"Forbidden\"}"
    /\ outcome = Rejected("{\"code\":1}")

\* C2: on a 204 every facade operation (list, create, update, delete) resolves
\* to null or no value, without parsing the body as JSON.
C2_NoContentResolves ==
    /\ pc = "done"
    /\ call.op \in FacadeOps
    /\ response.kind = "http"
    /\ response.status = 204
    => /\ outcome.kind = "resolved"
       /\ outcome.value \in {JNull, JUndef}
       /\ ~parsed

\* a title that is missing, empty or made of white space only
BlankTitle(data) ==
    LET title == Get(data, "title")
    IN  IF title.t # "str" THEN TRUE
        ELSE \A i \in 1..Len(title.s) :
                SubSeq(title.s, i, i) \in {" ", "\t", "\n", "\r"}

\* C3: createTodo with a missing, empty or white-space title fails with the
\* validation error and issues no request, whatever the token, the photo and
\* the location.
C3_BlankTitleNoRequest ==
    call.op = "createTodo" /\ BlankTitle(call.data) =>
        /\ pc = "done"
        /\ outcome = Rejected("El título es obligatorio")
        /\ nreq = 0
        /\ request = NoRequest

\* a white-space title with a token, a photo and a location has been rejected
C3_Witness ==
    /\ pc = "done"
    /\ call.op = "createTodo"
    /\ call.token = "tok"
    /\ Get(call.data, "title") = JStr(" \t")
    /\ Get(call.data, "photoUri") = JStr("https://picsum.photos/200")
    /\ Get(call.data, "location") = Location
    /\ outcome.kind = "rejected"
    /\ nreq = 0

\* C4: updateTodo with the legacy boolean b sends a PATCH whose payload is
\* exactly { completed: b }.
C4_LegacyBooleanPayload ==
    call.op = "updateTodo" /\ call.data.t = "bool" =>
        /\ request.method = "PATCH"
        /\ request.payload = JObj(<< <<"completed", JBool(call.data.b)>> >>)
        /\ request.body = IF call.data.b THEN "{\"completed\":true}"
                          ELSE "{\"completed\":false}"

\* the PATCH of updateTodo(id, token, false) is in flight
C4_Witness ==
    /\ pc = "fetching"
    /\ call.op = "updateTodo"
    /\ call.data = JBool(FALSE)
    /\ request.body = "{\"completed\":false}"

\* the keys JSON.stringify writes for a payload
SentKeys(payload) ==
    {k \in Keys(payload) : Get(payload, k) # JUndef}

\* C5 as stated: with a changes object, each of title, completed, image and
\* location is in the payload if and only if the changes supply it.
C5_KeyIffSupplied ==
    call.op = "updateTodo" /\ call.data.t = "obj" =>
        \A key \in {"title", "completed", "image", "location"} :
            key \in SentKeys(request.payload) <=> Get(call.data, key) # JUndef

\* C5 as amended: title, completed and image are in the payload if and only if
\* the changes supply them (image also when it is null); location is in the
\* payload if and only if the changes supply one that is not null; the payload
\* holds no other key.
C5_KeyIffDefined ==
    call.op = "updateTodo" /\ call.data.t = "obj" =>
        /\ \A key \in {"title", "completed", "image"} :
            /\ key \in SentKeys(request.payload) <=> Get(call.data, key) # JUndef
            /\ key \in SentKeys(request.payload) =>
                    Get(request.payload, key) = Get(call.data, key)
        /\ "location" \in SentKeys(request.payload)
                <=> Get(call.data, "location") \notin {JUndef, JNull}
        /\ SentKeys(request.payload) \subseteq {"title", "completed", "image", "location"}

\* the PATCH of updateTodo(id, token, { title: "x" }) carries the title only
C5_Witness ==
    /\ pc = "fetching"
    /\ call.op = "updateTodo"
    /\ call.data.t = "obj"
    /\ \A key \in {"completed", "image", "location"} : Get(call.data, key) = JUndef
    /\ request.body = "{\"title\":\"x\"}"

\* getTodos has ended on a response with a status in 200..299
ListEndedOnSuccess ==
    /\ pc = "done"
    /\ call.op = "getTodos"
    /\ response.kind = "http"
    /\ response.status \in 200..299

\* the body of a list response that wraps the items in { success, data }
EnvelopeBody(items) ==
    JSONStringify(JObj(<< <<"success", JBool(TRUE)>>, <<"data", JArr(items)>> >>))

\* the body of a list response that wraps the items in { data }
DataBody(items) == JSONStringify(JObj(<< <<"data", JArr(items)>> >>))

\* the body of a list response that is the bare array of the items
BareBody(items) == JSONStringify(JArr(items))

\* C6: a successful list response shaped { data: [items] } (with or without a
\* success flag) and one shaped as the bare array [items] make getTodos return
\* the same list: the items, in order.
C6_EnvelopeAndBareAgree ==
    ListEndedOnSuccess /\ response.status # 204 =>
        \A items \in TaskLists :
            response.body \in {DataBody(items), EnvelopeBody(items), BareBody(items)} =>
                outcome = Resolved(JArr(items))

\* getTodos has returned the two items of a bare array, in order
C6_Witness ==
    /\ ListEndedOnSuccess
    /\ response.body = BareBody(<<Task("2", "b", TRUE), Task("1", "a", FALSE)>>)
    /\ outcome = Resolved(JArr(<<Task("2", "b", TRUE), Task("1", "a", FALSE)>>))

\* t is s without the white space at its two ends
IsTrimOf(t, s) ==
    /\ \E i \in 1..Len(s), j \in 1..Len(s) :
        /\ SubSeq(s, i, j) = t
        /\ \A k \in (1..(i - 1)) \cup ((j + 1)..Len(s)) :
                SubSeq(s, k, k) \in {" ", "\t", "\n", "\r"}
    /\ t # ""
    /\ SubSeq(t, 1, 1) \notin {" ", "\t", "\n", "\r"}
    /\ SubSeq(t, Len(t), Len(t)) \notin {" ", "\t", "\n", "\r"}

\* C7: createTodo with a valid title sends a POST whose payload holds the
\* trimmed title, a location of latitude and longitude only if and only if a
\* location was given, an image if and only if the photo reference is a
\* non-empty string, and no other key.
C7_CreatePayloadShape ==
    call.op = "createTodo" /\ request # NoRequest =>
        LET title == Get(call.data, "title")
            photo == Get(call.data, "photoUri")
            location == Get(call.data, "location")
            payload == request.payload
        IN  /\ request.method = "POST"
            /\ Get(payload, "title").t = "str"
            /\ IsTrimOf(Get(payload, "title").s, title.s)
            /\ "location" \in SentKeys(payload) <=> location \notin {JUndef, JNull}
            /\ "location" \in SentKeys(payload) =>
                    Get(payload, "location") =
                        JObj(<< <<"latitude", Get(location, "latitude")>>,
                                <<"longitude", Get(location, "longitude")>> >>)
            /\ "image" \in SentKeys(payload) <=> (photo.t = "str" /\ photo.s # "")
            /\ "image" \in SentKeys(payload) => Get(payload, "image") = photo
            /\ SentKeys(payload) \subseteq {"title", "location", "image"}
            /\ (title.s = "  Buy milk  " /\ location = JUndef /\ photo = JUndef) =>
                    request.body = "{\"title\":\"Buy milk\"}"

\* the POST of a task with title "  Buy milk  ", a photo and a location is in
\* flight: trimmed title, latitude and longitude, image
C7_Witness ==
    /\ pc = "fetching"
    /\ call.op = "createTodo"
    /\ Get(call.data, "title") = JStr("  Buy milk  ")
    /\ request.body =
        "{\"title\":\"Buy milk\",\"location\":{\"latitude\":10,\"longitude\":20},\"image\":\"https://picsum.photos/200\"}"

\* C8: on every response with a status in 200..299, whatever JSON value or
\* empty body it carries, getTodos resolves to a list.
C8_ListNeverThrowsOnShape ==
    /\ ListEndedOnSuccess
    /\ (JSONParse(response.body).ok \/ response.body = "")
    => /\ outcome.kind = "resolved"
       /\ outcome.value.t = "arr"

\* the text holds the HTML doctype
HoldsDoctype(text) ==
    \E i \in 1..(Len(text) - 14) : SubSeq(text, i, i + 14) = "<!DOCTYPE html>"

\* C9 as stated: on a non-2xx response whose body is no JSON, the message is
\* the generic server error with the status when the text holds the HTML
\* doctype, the raw text otherwise, and "<status>: <status text>" when the body
\* is empty.
C9_FallbackWithoutPrefix ==
    EndedOnHttpError /\ ~JSONParse(response.body).ok =>
        /\ outcome.kind = "rejected"
        /\ outcome.message =
            IF HoldsDoctype(response.body)
            THEN "Error del servidor (" \o ToString(response.status) \o ")"
            ELSE IF response.body # "" THEN response.body
            ELSE ToString(response.status) \o ": " \o response.statusText

\* C9 as amended: as stated, but the message for an empty body is
\* "Error <status>: <status text>".
C9_FallbackWithPrefix ==
    EndedOnHttpError /\ ~JSONParse(response.body).ok =>
        /\ outcome.kind = "rejected"
        /\ outcome.message =
            IF HoldsDoctype(response.body)
            THEN "Error del servidor (" \o ToString(response.status) \o ")"
            ELSE IF response.body # "" THEN response.body
            ELSE "Error " \o ToString(response.status) \o ": " \o response.statusText

\* a delete answered 500 with an empty body has thrown "Error 500: ..."
C9_Witness ==
    /\ EndedOnHttpError
    /\ call.op = "deleteTodo"
    /\ response.status = 500
    /\ response.body = ""
    /\ outcome = Rejected("Error 500: Internal Server Error")

\* the request of the call has failed: no response, or a non-2xx one
RequestFailed ==
    \/ response.kind = "transport"
    \/ response.kind = "http" /\ ~(response.status \in 200..299)

\* C10: a facade call issues at most one request; once that request has failed
\* the call has ended by throwing and has issued no further request.
C10_SingleAttempt ==
    /\ nreq <= 1
    /\ RequestFailed => /\ pc = "done"
                        /\ outcome.kind = "rejected"
                        /\ nreq = 1

\* an update whose request met a transport failure has thrown after one request
C10_Witness ==
    /\ pc = "done"
    /\ call.op = "updateTodo"
    /\ response.kind = "transport"
    /\ outcome = Rejected("Network request failed")
    /\ nreq = 1

(***************************************************************************)
(* The list screen (app/home/todo-list/index.tsx), the calls it has made   *)
(* and the server behind them.  tasks is the screen's local list, server   *)
(* the list the server holds.  calls holds the calls in the order in which *)
(* they were started; a call is sent while its request is on its way,      *)
(* answered once the server (or the network, failing) has decided how the  *)
(* promise of the facade settles, and done once the code after the await   *)
(* has run.  inOrder tells whether the server has processed the updates of *)
(* each task in the order in which they were started.                      *)
(***************************************************************************)
\* the calls a behaviour holds
MaxCalls == 2

\* a task as the screens read it: { id, completed }
ViewTask(id, completed) == [id |-> id, completed |-> completed]

\* the lists the server holds to start with
ServerLists ==
    {<<ViewTask("1", c1), ViewTask("2", c2)>> : c1 \in BOOLEAN, c2 \in BOOLEAN}

\* the token of useAuth(): null when signed out
AuthTokens == {JNull, JStr(""), JStr("tok")}

\* the guard of the handlers, were it token === null
TokenPresentNullOnly(token) == token # JNull

\* if (!token) return: the handler goes on
TokenPresent(token) == Truthy(token)

\* list.some(t => t.id === id)
HoldsTask(list, id) == \E i \in 1..Len(list) : list[i].id = id

\* prev.map(t => t.id === id ? { ...t, completed } : t)
MapCompleted(list, id, completed) ==
    [i \in 1..Len(list) |->
        IF list[i].id = id THEN [list[i] EXCEPT !.completed = completed]
        ELSE list[i]]

\* prev.filter(t => t.id !== id)
FilterOut(list, id) == SelectSeq(list, LAMBDA t : t.id # id)

\* a call of a handler of the screens (origin list, create, edit) or of
\* another caller of the facade: its kind, the token its closure holds, the
\* task it is about, the value it sets, the snapshot it holds
\* (previousTasks), its request and how far it has got
ScreenCall(origin, kind, token, id, value, prev, req, phase) ==
    [origin |-> origin, kind |-> kind, token |-> token, id |-> id,
     value |-> value, prev |-> prev, req |-> req, phase |-> phase,
     ok |-> FALSE, data |-> <<>>]

\* the responses of the server: 200 with the task, 204, and a refusal
OkResponse == Response(200, DocText[Task("1", "a", FALSE)])
NoContentResponse == Response(204, "")
ErrorResponse == Response(500, "")

\* 200 with a list of tasks
ListResponse == Response(200, DocText[JArr(<<Task("1", "a", FALSE)>>)])

\* the facade operation that issues a request of the method
OpOf(method) ==
    CASE method = "PATCH" -> "updateTodo"
      [] method = "DELETE" -> "deleteTodo"
      [] method = "POST" -> "createTodo"
      [] OTHER -> "getTodos"

\* the methods of the requests to /todos
Methods == {"GET", "POST", "PATCH", "DELETE"}

\* the response of the server to a request it accepts or refuses
ServerResponse(method, accept) ==
    IF ~accept THEN ErrorResponse
    ELSE CASE method = "DELETE" -> NoContentResponse
           [] method = "GET" -> ListResponse
           [] OTHER -> OkResponse

\* whether the promise of the facade resolves on the answer of the server
Resolves ==
    [method \in Methods, accept \in BOOLEAN |->
        Settle(OpOf(method), ServerResponse(method, accept)).kind = "resolved"]

\* the state of the create and edit screens
forms == <<isSaving, isLoading>>

\* handleToggle(item.id, item.completed) up to its await: the snapshot, the
\* optimistic update and the PATCH of api.updateTodo(id, token, !currentStatus)
ToggleStart ==
    /\ TokenPresent(authToken)
    /\ Len(calls) < MaxCalls
    /\ \E i \in 1..Len(tasks) :
        LET id == tasks[i].id
            currentStatus == tasks[i].completed
            previousTasks == tasks
        IN  /\ tasks' = MapCompleted(tasks, id, ~currentStatus)
            /\ calls' = Append(calls,
                    ScreenCall("list", "toggle", authToken, id, ~currentStatus,
                        previousTasks,
                        Request("PATCH", "/todos/" \o id, Bearer(authToken.s),
                                UpdatePayload(JBool(~currentStatus))),
                        "sent"))
    /\ UNCHANGED <<authToken, server, inOrder, forms>>
    /\ UNCHANGED vars

\* the list the server holds after a request it accepts: a PATCH sets the
\* completed of the payload on the task, a DELETE drops the task
ServerAfter(list, req, id) ==
    CASE req.method = "PATCH" ->
            LET completed == Get(req.payload, "completed")
            IN  IF completed # JUndef
                THEN MapCompleted(list, id, completed.b) ELSE list
      [] req.method = "DELETE" -> FilterOut(list, id)
      [] OTHER -> list

\* the server processes a request: it accepts it and answers 200 (204 for a
\* DELETE, the list it holds for a GET), or refuses it and answers an error;
\* it refuses a PATCH or a DELETE of a task it does not hold.  fetch resolves
\* and the promise of the facade settles
ServerAnswers ==
    \E k \in 1..Len(calls), accept \in BOOLEAN :
        /\ calls[k].phase = "sent"
        /\ calls[k].req # NoRequest
        /\ (accept /\ calls[k].req.method \in {"PATCH", "DELETE"})
                => HoldsTask(server, calls[k].id)
        /\ server' = IF accept
                      THEN ServerAfter(server, calls[k].req, calls[k].id)
                      ELSE server
        /\ calls' = [calls EXCEPT
                ![k].phase = "answered",
                ![k].ok = Resolves[calls[k].req.method, accept],
                ![k].data = IF accept /\ calls[k].req.method = "GET"
                            THEN server ELSE <<>>]
        /\ inOrder' = (inOrder /\ ~\E j \in 1..(k - 1) :
                                        /\ calls[k].req.method = "PATCH"
                                        /\ calls[j].phase = "sent"
                                        /\ calls[j].req.method = "PATCH"
                                        /\ calls[j].id = calls[k].id)
        /\ UNCHANGED <<authToken, tasks, forms>>
        /\ UNCHANGED vars

\* the request never reaches the server: fetch rejects
TransportFails ==
    \E k \in 1..Len(calls) :
        /\ calls[k].phase = "sent"
        /\ calls[k].req # NoRequest
        /\ calls' = [calls EXCEPT ![k].phase = "answered", ![k].ok = FALSE]
        /\ UNCHANGED <<authToken, tasks, server, inOrder, forms>>
        /\ UNCHANGED vars

\* handleToggle after its await, were the rollback to flip back the one task
\* of the toggle: prev.map(t => t.id === id ? { ...t, completed } : t)
ToggleSettlesUnflip ==
    \E k \in 1..Len(calls) :
        /\ calls[k].kind = "toggle"
        /\ calls[k].phase = "answered"
        /\ tasks' = IF calls[k].ok THEN tasks
                     ELSE MapCompleted(tasks, calls[k].id, ~calls[k].value)
        /\ calls' = [calls EXCEPT ![k].phase = "done"]
        /\ UNCHANGED <<authToken, server, inOrder, forms>>
        /\ UNCHANGED vars

\* handleToggle after its await, were the snapshot put back whatever the
\* call's outcome
ToggleSettlesAlwaysRollback ==
    \E k \in 1..Len(calls) :
        /\ calls[k].kind = "toggle"
        /\ calls[k].phase = "answered"
        /\ tasks' = calls[k].prev
        /\ calls' = [calls EXCEPT ![k].phase = "done"]
        /\ UNCHANGED <<authToken, server, inOrder, forms>>
        /\ UNCHANGED vars

\* handleToggle after its await: nothing when the call resolved, the rollback
\* setTasks(previousTasks) when it threw
ToggleSettles ==
    \E k \in 1..Len(calls) :
        /\ calls[k].kind = "toggle"
        /\ calls[k].phase = "answered"
        /\ tasks' = IF calls[k].ok THEN tasks ELSE calls[k].prev
        /\ calls' = [calls EXCEPT ![k].phase = "done"]
        /\ UNCHANGED <<authToken, server, inOrder, forms>>
        /\ UNCHANGED vars

\* the list screen, loaded and signed in, where only tasks are toggled
InitToggles ==
    /\ pc = "idle"
    /\ call = NoCall
    /\ request = NoRequest
    /\ nreq = 0
    /\ response = NoResponse
    /\ parsed = FALSE
    /\ outcome = Pending
    /\ authToken = JStr("tok")
    /\ server \in ServerLists
    /\ tasks = server
    /\ calls = <<>>
    /\ inOrder = TRUE
    /\ isSaving = FALSE
    /\ isLoading = FALSE

NextToggles ==
    \/ ToggleStart
    \/ ServerAnswers
    \/ TransportFails
    \/ ToggleSettles

SpecToggles == InitToggles /\ [][NextToggles]_allvars

(***************************************************************************)
(* The rest of the list screen: loading, deleting and signing out.         *)
(***************************************************************************)
\* loadTasks / fetchTasks up to the await: GET /todos of api.getTodos(token)
LoadStart ==
    /\ TokenPresent(authToken)
    /\ Len(calls) < MaxCalls
    /\ calls' = Append(calls,
            ScreenCall("list", "load", authToken, "", FALSE, <<>>,
                RequestNoBody("GET", "/todos", Bearer(authToken.s)), "sent"))
    /\ UNCHANGED <<authToken, tasks, server, inOrder, forms>>
    /\ UNCHANGED vars

\* loadTasks after its await: setTasks(data), or the alert of the catch block
LoadSettles ==
    \E k \in 1..Len(calls) :
        /\ calls[k].kind = "load"
        /\ calls[k].phase = "answered"
        /\ tasks' = IF calls[k].ok THEN calls[k].data ELSE tasks
        /\ calls' = [calls EXCEPT ![k].phase = "done"]
        /\ UNCHANGED <<authToken, server, inOrder, forms>>
        /\ UNCHANGED vars

\* handleDelete(item.id): the alert is shown; its buttons hold the token of
\* this render
DeleteAsk ==
    /\ Len(calls) < MaxCalls
    /\ \E i \in 1..Len(tasks) :
        calls' = Append(calls,
            ScreenCall("list", "delete", authToken, tasks[i].id, FALSE, <<>>,
                       NoRequest, "confirm"))
    /\ UNCHANGED <<authToken, tasks, server, inOrder, forms>>
    /\ UNCHANGED vars

\* the button Cancelar
DeleteCancel ==
    \E k \in 1..Len(calls) :
        /\ calls[k].kind = "delete"
        /\ calls[k].phase = "confirm"
        /\ calls' = [calls EXCEPT ![k].phase = "dropped"]
        /\ UNCHANGED <<authToken, tasks, server, inOrder, forms>>
        /\ UNCHANGED vars

\* the button Eliminar, were the task taken off the list before the call
DeleteConfirmOptimistic ==
    \E k \in 1..Len(calls) :
        /\ calls[k].kind = "delete"
        /\ calls[k].phase = "confirm"
        /\ tasks' = FilterOut(tasks, calls[k].id)
        /\ calls' = IF TokenPresent(calls[k].token)
                    THEN [calls EXCEPT ![k].phase = "sent",
                            ![k].req = RequestNoBody("DELETE",
                                          "/todos/" \o calls[k].id,
                                          Bearer(calls[k].token.s))]
                    ELSE [calls EXCEPT ![k].phase = "dropped"]
        /\ UNCHANGED <<authToken, server, inOrder, forms>>
        /\ UNCHANGED vars

\* the button Eliminar up to its await: if (!token) return, then the DELETE
\* of api.deleteTodo(id, token)
DeleteConfirm ==
    \E k \in 1..Len(calls) :
        /\ calls[k].kind = "delete"
        /\ calls[k].phase = "confirm"
        /\ calls' = IF TokenPresent(calls[k].token)
                    THEN [calls EXCEPT ![k].phase = "sent",
                            ![k].req = RequestNoBody("DELETE",
                                          "/todos/" \o calls[k].id,
                                          Bearer(calls[k].token.s))]
                    ELSE [calls EXCEPT ![k].phase = "dropped"]
        /\ UNCHANGED <<authToken, tasks, server, inOrder, forms>>
        /\ UNCHANGED vars

\* the button Eliminar after its await: the task leaves the list when the
\* call resolved, the alert of the catch block when it threw
DeleteSettles ==
    \E k \in 1..Len(calls) :
        /\ calls[k].kind = "delete"
        /\ calls[k].phase = "answered"
        /\ tasks' = IF calls[k].ok THEN FilterOut(tasks, calls[k].id) ELSE tasks
        /\ calls' = [calls EXCEPT ![k].phase = "done"]
        /\ UNCHANGED <<authToken, server, inOrder, forms>>
        /\ UNCHANGED vars

\* signOut of the session provider: the token is gone
SignOut ==
    /\ authToken # JNull
    /\ authToken' = JNull
    /\ UNCHANGED <<tasks, calls, server, inOrder, forms>>
    /\ UNCHANGED vars

(***************************************************************************)
(* The create screen (create.tsx) and the edit screen (edit/[id].tsx).     *)
(* What the user has typed, photographed and located is an input of the    *)
(* tap on the save button.  A request to the device for the position is a  *)
(* call of kind location, which holds no request.                          *)
(***************************************************************************)
\* the placeholder URL sent for a photo
PlaceholderImage == JStr("https://picsum.photos/200")

\* title, photoUri and locationData of a form
FormInputs ==
    {[title |-> "  ", photoUri |-> JNull, locationData |-> JNull],
     [title |-> " x ", photoUri |-> JNull, locationData |-> JNull],
     [title |-> "x", photoUri |-> JStr("file:1"), locationData |-> Location]}

\* the task of the edit screen: useLocalSearchParams().id
EditId == "1"

\* s.startsWith(prefix)
StartsWith(s, prefix) ==
    Len(s) >= Len(prefix) /\ SubSeq(s, 1, Len(prefix)) = prefix

\* the NewTaskData handleSaveTask hands to api.createTodo
CreateData(form) ==
    JObj(<< <<"title", JStr(Trim(form.title))>>,
            <<"photoUri", IF Truthy(form.photoUri)
                          THEN PlaceholderImage ELSE JUndef>>,
            <<"location", IF Truthy(form.locationData)
                          THEN form.locationData ELSE JUndef>> >>)

\* the changes handleUpdate hands to api.updateTodo
UpdateData(form, completed) ==
    JObj(<< <<"title", JStr(Trim(form.title))>>,
            <<"completed", JBool(completed)>>,
            <<"image", IF Truthy(form.photoUri)
                          /\ StartsWith(form.photoUri.s, "file:")
                       THEN PlaceholderImage ELSE form.photoUri>>,
            <<"location", IF Truthy(form.locationData)
                          THEN form.locationData ELSE JUndef>> >>)

\* create.tsx handleGetLocation up to its await; its button is disabled
\* while isLoading
CreateLocationStart ==
    /\ ~isLoading
    /\ Len(calls) < MaxCalls
    /\ isLoading' = TRUE
    /\ calls' = Append(calls,
            ScreenCall("create", "location", authToken, "", FALSE, <<>>,
                       NoRequest, "sent"))
    /\ UNCHANGED <<authToken, tasks, server, inOrder, isSaving>>
    /\ UNCHANGED vars

\* create.tsx handleGetLocation after its await, the position got or not
CreateLocationSettles ==
    \E k \in 1..Len(calls) :
        /\ calls[k].kind = "location"
        /\ calls[k].origin = "create"
        /\ calls[k].phase = "sent"
        /\ isLoading' = FALSE
        /\ calls' = [calls EXCEPT ![k].phase = "done"]
        /\ UNCHANGED <<authToken, tasks, server, inOrder, isSaving>>
        /\ UNCHANGED vars

\* handleSaveTask up to its await: the POST of api.createTodo; its button is
\* disabled while isLoading
CreateSave ==
    /\ ~isLoading
    /\ TokenPresent(authToken)
    /\ Len(calls) < MaxCalls
    /\ \E form \in FormInputs :
        /\ Trim(form.title) # ""
        /\ ~TitleMissing(CreateData(form))
        /\ calls' = Append(calls,
                ScreenCall("create", "create", authToken, "", FALSE, <<>>,
                    Request("POST", "/todos", Bearer(authToken.s),
                            CreatePayload(CreateData(form))), "sent"))
    /\ isLoading' = TRUE
    /\ UNCHANGED <<authToken, tasks, server, inOrder, isSaving>>
    /\ UNCHANGED vars

\* handleSaveTask after its await: the alerts, and setIsLoading(false)
CreateSettles ==
    \E k \in 1..Len(calls) :
        /\ calls[k].kind = "create"
        /\ calls[k].phase = "answered"
        /\ isLoading' = FALSE
        /\ calls' = [calls EXCEPT ![k].phase = "done"]
        /\ UNCHANGED <<authToken, tasks, server, inOrder, isSaving>>
        /\ UNCHANGED vars

\* edit handleGetLocation up to its first await; its button is never disabled
EditLocationAsked ==
    /\ Len(calls) < MaxCalls
    /\ calls' = Append(calls,
            ScreenCall("edit", "location", authToken, "", FALSE, <<>>,
                       NoRequest, "perm"))
    /\ UNCHANGED <<authToken, tasks, server, inOrder, forms>>
    /\ UNCHANGED vars

\* edit handleGetLocation after requestForegroundPermissionsAsync: it returns
\* when the permission is denied, else setIsSaving(true) and the position is
\* asked for
EditLocationPermission ==
    \E k \in 1..Len(calls), granted \in BOOLEAN :
        /\ calls[k].kind = "location"
        /\ calls[k].phase = "perm"
        /\ isSaving' = IF granted THEN TRUE ELSE isSaving
        /\ calls' = [calls EXCEPT ![k].phase = IF granted THEN "sent"
                                               ELSE "dropped"]
        /\ UNCHANGED <<authToken, tasks, server, inOrder, isLoading>>
        /\ UNCHANGED vars

\* edit handleGetLocation after getCurrentPositionAsync, the position got or
\* not: setIsSaving(false)
EditLocationSettles ==
    \E k \in 1..Len(calls) :
        /\ calls[k].kind = "location"
        /\ calls[k].origin = "edit"
        /\ calls[k].phase = "sent"
        /\ isSaving' = FALSE
        /\ calls' = [calls EXCEPT ![k].phase = "done"]
        /\ UNCHANGED <<authToken, tasks, server, inOrder, isLoading>>
        /\ UNCHANGED vars

\* handleUpdate up to its await: the PATCH of api.updateTodo; its button is
\* disabled while isSaving
UpdateSave ==
    /\ ~isSaving
    /\ TokenPresent(authToken)
    /\ Len(calls) < MaxCalls
    /\ \E form \in FormInputs, completed \in BOOLEAN :
        /\ Trim(form.title) # ""
        /\ calls' = Append(calls,
                ScreenCall("edit", "update", authToken, EditId, completed, <<>>,
                    Request("PATCH", "/todos/" \o EditId, Bearer(authToken.s),
                            UpdatePayload(UpdateData(form, completed))),
                    "sent"))
    /\ isSaving' = TRUE
    /\ UNCHANGED <<authToken, tasks, server, inOrder, isLoading>>
    /\ UNCHANGED vars

\* handleUpdate after its await: the alerts, and setIsSaving(false)
UpdateSettles ==
    \E k \in 1..Len(calls) :
        /\ calls[k].kind = "update"
        /\ calls[k].phase = "answered"
        /\ isSaving' = FALSE
        /\ calls' = [calls EXCEPT ![k].phase = "done"]
        /\ UNCHANGED <<authToken, tasks, server, inOrder, isLoading>>
        /\ UNCHANGED vars

(***************************************************************************)
(* Another caller of the facade, which hands it any token, and the screens *)
(* together.                                                               *)
(***************************************************************************)
\* the requests of createTodo, updateTodo and deleteTodo called with the token
FacadeRequests(token) ==
    {Request("POST", "/todos", Bearer(token),
             CreatePayload(JObj(<< <<"title", JStr("x")>> >>))),
     Request("PATCH", "/todos/" \o EditId, Bearer(token),
             UpdatePayload(JBool(TRUE))),
     RequestNoBody("DELETE", "/todos/" \o EditId, Bearer(token))}

\* api.createTodo, api.updateTodo or api.deleteTodo called by another caller
\* than the screens, up to the await of fetch
FacadeCalled ==
    /\ Len(calls) < MaxCalls
    /\ \E token \in Tokens :
        \E req \in FacadeRequests(token) :
            calls' = Append(calls,
                ScreenCall("facade", "facade", JStr(token), EditId, TRUE, <<>>,
                           req, "sent"))
    /\ UNCHANGED <<authToken, tasks, server, inOrder, forms>>
    /\ UNCHANGED vars

\* the screens mounted: the list loaded when signed in, empty when not
InitScreens ==
    /\ pc = "idle"
    /\ call = NoCall
    /\ request = NoRequest
    /\ nreq = 0
    /\ response = NoResponse
    /\ parsed = FALSE
    /\ outcome = Pending
    /\ authToken \in AuthTokens
    /\ server = <<ViewTask("1", FALSE), ViewTask("2", TRUE)>>
    /\ tasks = IF TokenPresent(authToken) THEN server ELSE <<>>
    /\ calls = <<>>
    /\ inOrder = TRUE
    /\ isSaving = FALSE
    /\ isLoading = FALSE

NextScreens ==
    \/ ToggleStart
    \/ ToggleSettles
    \/ LoadStart
    \/ LoadSettles
    \/ DeleteAsk
    \/ DeleteCancel
    \/ DeleteConfirm
    \/ DeleteSettles
    \/ SignOut
    \/ CreateLocationStart
    \/ CreateLocationSettles
    \/ CreateSave
    \/ CreateSettles
    \/ EditLocationAsked
    \/ EditLocationPermission
    \/ EditLocationSettles
    \/ UpdateSave
    \/ UpdateSettles
    \/ FacadeCalled
    \/ ServerAnswers
    \/ TransportFails

SpecScreens == InitScreens /\ [][NextScreens]_allvars

(***************************************************************************)
(* Claims about the list screen's toggles                                  *)
(***************************************************************************)
\* the toggle calls[k] has run to its end
ToggleDone(k) == calls[k].kind = "toggle" /\ calls[k].phase = "done"

\* no toggle of the same task was started after calls[k]
LastToggleOfTask(k) ==
    ~\E j \in (k + 1)..Len(calls) :
        calls[j].kind = "toggle" /\ calls[j].id = calls[k].id

\* the local completed flag of the task is the value
LocalCompleted(id, value) ==
    \A i \in 1..Len(tasks) : tasks[i].id = id => tasks[i].completed = value

\* C12: for any interleaving of toggles, a task whose (latest) toggle has
\* ended with its own update call resolved shows the value that toggle
\* flipped it to: no other toggle's failure takes the flip back
C12_SucceededToggleKeepsValue ==
    \A k \in 1..Len(calls) :
        (ToggleDone(k) /\ calls[k].ok /\ LastToggleOfTask(k))
            => LocalCompleted(calls[k].id, calls[k].value)

\* every call made is a toggle that has ended with its update call resolved
AllTogglesSucceeded ==
    \A k \in 1..Len(calls) : ToggleDone(k) /\ calls[k].ok

\* each task of the local list has the completed flag the server holds
LocalEqualsServer ==
    \A i \in 1..Len(tasks), j \in 1..Len(server) :
        tasks[i].id = server[j].id => tasks[i].completed = server[j].completed

\* C16 as stated: once every toggle call has resolved, all of them
\* successfully, each task's local completed flag equals the server's,
\* whatever the order in which the server processed the calls
C16_LocalEqualsServer == AllTogglesSucceeded => LocalEqualsServer

\* C16, amended: once every toggle call has resolved, all of them
\* successfully, and the server processed the toggles of each task in the
\* order in which they were started, each task's local completed flag equals
\* the server's
C16_InOrderLocalEqualsServer ==
    (AllTogglesSucceeded /\ inOrder) => LocalEqualsServer

\* two toggles of one task have both succeeded, the second started while the
\* first was in flight and the server having processed them in order, and
\* the lists agree
C16_Witness ==
    /\ Len(calls) = 2
    /\ AllTogglesSucceeded
    /\ inOrder
    /\ calls[1].id = calls[2].id
    /\ calls[2].prev # calls[1].prev
    /\ LocalEqualsServer

(***************************************************************************)
(* Claims about the screens                                                *)
(***************************************************************************)
\* calls[k] has issued a POST, PATCH or DELETE to /todos
Mutating(k) == calls[k].req.method \in {"POST", "PATCH", "DELETE"}

\* the request of calls[k] carries a token that is not empty
CarriesToken(k) ==
    \E t \in Tokens \ {""} : calls[k].req.authorization = Bearer(t)

\* C11 as stated: no POST, PATCH or DELETE to /todos is issued with a missing
\* or empty token, whether the call comes from the list, create or edit
\* screen or from another caller of the facade
C11_MutatingCarriesToken ==
    \A k \in 1..Len(calls) : Mutating(k) => CarriesToken(k)

\* C11, amended: no POST, PATCH or DELETE to /todos that the list, create or
\* edit screen issues has a missing or empty token
C11_ScreenMutatingCarriesToken ==
    \A k \in 1..Len(calls) :
        (Mutating(k) /\ calls[k].origin \in {"list", "create", "edit"})
            => CarriesToken(k)

\* a screen has a mutating request in flight after the facade was called by
\* another caller
C11_Witness ==
    /\ Len(calls) = 2
    /\ calls[1].origin = "facade"
    /\ calls[2].origin \in {"list", "create", "edit"}
    /\ Mutating(2)
    /\ calls[2].phase = "sent"

\* C13: when the update call of a toggle fails, the step that handles the
\* failure makes the local list exactly the snapshot taken when that toggle
\* started, and issues no request (no GET /todos): every other call is as it
\* was
C13_RollbackIsSnapshot ==
    [][\A k \in 1..Len(calls) :
          (/\ calls[k].kind = "toggle"
           /\ calls[k].phase = "answered"
           /\ ~calls[k].ok
           /\ Len(calls') >= k
           /\ calls'[k].phase = "done")
              => /\ tasks' = calls[k].prev
                 /\ calls' = [calls EXCEPT ![k].phase = "done"]]_allvars

\* a toggle has failed and was rolled back after a toggle of another task
\* was started
C13_Witness ==
    /\ Len(calls) = 2
    /\ calls[1].kind = "toggle"
    /\ calls[2].kind = "toggle"
    /\ calls[1].id # calls[2].id
    /\ calls[1].phase = "done"
    /\ ~calls[1].ok
    /\ calls[2].phase = "sent"
    /\ tasks = calls[1].prev

\* C14: a task leaves the local list in a step of the delete handler only
\* when its delete call has succeeded, and then it alone leaves; asking,
\* cancelling, confirming (with or without a token), the server's answer
\* and a failed call leave the local list unchanged
C14_DeleteFrame ==
    [][/\ \A k \in 1..Len(calls) :
            (/\ calls[k].kind = "delete"
             /\ Len(calls') >= k
             /\ calls'[k].phase # calls[k].phase)
                => tasks' = IF calls[k].phase = "answered" /\ calls[k].ok
                            THEN FilterOut(tasks, calls[k].id)
                            ELSE tasks
       /\ (/\ Len(calls') > Len(calls)
           /\ calls'[Len(calls')].kind = "delete") => tasks' = tasks]_allvars

\* a delete call has succeeded and its task has left the list, and another
\* was dropped with its task on the list
C14_Witness ==
    /\ Len(calls) = 2
    /\ calls[1].kind = "delete"
    /\ calls[1].phase = "done"
    /\ calls[1].ok
    /\ ~HoldsTask(tasks, calls[1].id)
    /\ calls[2].kind = "delete"
    /\ calls[2].phase = "dropped"
    /\ HoldsTask(tasks, calls[2].id)

\* the update request of calls[k], made by the edit screen, is in flight
UpdateInFlight(k) ==
    /\ calls[k].kind = "update"
    /\ calls[k].phase \in {"sent", "answered"}

\* C15: on the edit screen isSaving is true in every state where an update
\* request of that screen is in flight
C15_SavingWhileUpdateInFlight ==
    (\E k \in 1..Len(calls) : UpdateInFlight(k)) => isSaving

====
